---------------------------- MODULE Spec2Model ----------------------------
(***************************************************************************)
(* Model of the retailer catalog scrapers of sbase (Gamebillet.download,   *)
(* Gamesplanet.steam, Indiegala.bundles, Indiegala.fetch) and of its two   *)
(* catalog scripts (normalize.main, steam.main).  One invocation runs one  *)
(* of them, so a behaviour of the model is one run of one operation        *)
(* against one site or one set of files.                                   *)
(*                                                                         *)
(* Texts are sequences of one-character strings.  Decimal numbers (Python  *)
(* floats read from page text) are records [n, d] standing for n / 10^d,   *)
(* normalised so that n has no trailing zero digit unless d = 0.           *)
(***************************************************************************)
EXTENDS Integers, Sequences, FiniteSets, TLC

(***************************************************************************)
(* Bounds of the model.                                                    *)
(***************************************************************************)
MaxPages == 2
MaxSlides == 3
MaxBundles == 1
MaxNameLen == 3
MaxItems == 2
MaxFiles == 2
MaxFetch == 3

(***************************************************************************)
(* Text helpers: the Python str methods the scrapers use.                  *)
(***************************************************************************)
Digits == {"0", "1", "2", "3", "4", "5", "6", "7", "8", "9"}

DigitVal(c) ==
    CASE c = "0" -> 0 [] c = "1" -> 1 [] c = "2" -> 2 [] c = "3" -> 3
      [] c = "4" -> 4 [] c = "5" -> 5 [] c = "6" -> 6 [] c = "7" -> 7
      [] c = "8" -> 8 [] c = "9" -> 9

\* str.replace(c, "") for a one-character c
Remove(s, c) == SelectSeq(s, LAMBDA x : x # c)

\* str.removeprefix(p)
RemovePrefix(s, p) ==
    IF Len(s) >= Len(p) /\ SubSeq(s, 1, Len(p)) = p
    THEN SubSeq(s, Len(p) + 1, Len(s))
    ELSE s

RECURSIVE LStrip(_)
LStrip(s) == IF s # <<>> /\ Head(s) = " " THEN LStrip(Tail(s)) ELSE s

RECURSIVE RStrip(_)
RStrip(s) ==
    IF s # <<>> /\ s[Len(s)] = " " THEN RStrip(SubSeq(s, 1, Len(s) - 1)) ELSE s

\* str.strip(), which int() and float() apply to their argument
Strip(s) == RStrip(LStrip(s))

AllDigits(s) == \A i \in 1..Len(s) : s[i] \in Digits

RECURSIVE DigitsVal(_)
DigitsVal(s) ==
    IF s = <<>> THEN 0
    ELSE 10 * DigitsVal(SubSeq(s, 1, Len(s) - 1)) + DigitVal(s[Len(s)])

IsSign(c) == c \in {"+", "-"}

Unsigned(s) == IF s # <<>> /\ IsSign(Head(s)) THEN Tail(s) ELSE s

SignOf(s) == IF s # <<>> /\ Head(s) = "-" THEN -1 ELSE 1

\* index of the first occurrence of a character of cs in s, 0 when none
FirstIn(s, cs) ==
    IF \E i \in 1..Len(s) : s[i] \in cs
    THEN CHOOSE i \in 1..Len(s) : s[i] \in cs /\ \A j \in 1..(i - 1) : s[j] \notin cs
    ELSE 0

(***************************************************************************)
(* int(text): surrounding blanks stripped, an optional sign, then one or   *)
(* more digits; anything else raises ValueError (ok = FALSE).              *)
(***************************************************************************)
IntOk(s) ==
    LET u == Unsigned(Strip(s)) IN u # <<>> /\ AllDigits(u)

IntVal(s) ==
    LET t == Strip(s) IN SignOf(t) * DigitsVal(Unsigned(t))

(***************************************************************************)
(* float(text): surrounding blanks stripped, an optional sign, digits with *)
(* an optional point (at least one digit), an optional exponent            *)
(* e[sign]digits; anything else raises ValueError.                         *)
(***************************************************************************)
RECURSIVE Pow10(_)
Pow10(k) == IF k <= 0 THEN 1 ELSE 10 * Pow10(k - 1)

RECURSIVE Norm(_, _)
Norm(n, d) ==
    IF d < 0 THEN Norm(n * 10, d + 1)
    ELSE IF n = 0 THEN [n |-> 0, d |-> 0]
    ELSE IF d > 0 /\ n % 10 = 0 THEN Norm(n \div 10, d - 1)
    ELSE [n |-> n, d |-> d]

Zero == [n |-> 0, d |-> 0]

MantissaOf(u) ==
    LET e == FirstIn(u, {"e", "E"}) IN IF e = 0 THEN u ELSE SubSeq(u, 1, e - 1)

ExponentOf(u) ==
    LET e == FirstIn(u, {"e", "E"}) IN
    IF e = 0 THEN <<"0">> ELSE SubSeq(u, e + 1, Len(u))

IntPart(m) ==
    LET p == FirstIn(m, {"."}) IN IF p = 0 THEN m ELSE SubSeq(m, 1, p - 1)

FracPart(m) ==
    LET p == FirstIn(m, {"."}) IN IF p = 0 THEN <<>> ELSE SubSeq(m, p + 1, Len(m))

MantissaOk(m) ==
    /\ AllDigits(IntPart(m))
    /\ AllDigits(FracPart(m))
    /\ Len(IntPart(m)) + Len(FracPart(m)) >= 1

FloatOk(s) ==
    LET u == Unsigned(Strip(s)) IN
    /\ MantissaOk(MantissaOf(u))
    /\ IntOk(ExponentOf(u))
    /\ Strip(ExponentOf(u)) = ExponentOf(u)

FloatVal(s) ==
    LET t == Strip(s)
        u == Unsigned(t)
        m == MantissaOf(u)
        x == IntVal(ExponentOf(u))
    IN  Norm(SignOf(t) * DigitsVal(IntPart(m) \o FracPart(m)), Len(FracPart(m)) - x)

\* a <= b on decimals
DecLeq(a, b) == a.n * Pow10(b.d) <= b.n * Pow10(a.d)


(***************************************************************************)
(* The rendering collaborator's answers.  item.query_selector(css) gives   *)
(* an element or None; reading .text of None raises AttributeError.        *)
(***************************************************************************)
Elem(t) == [found |-> TRUE, text |-> t]
NoElem == [found |-> FALSE, text |-> <<>>]

TxEmpty == <<>>
TxSale25 == <<"S", "a", "l", "e", "-", "2", "5", "%">>
TxSale == <<"S", "a", "l", "e">>
TxMinus50 == <<"-", "5", "0", "%">>
TxMinus150 == <<"-", "1", "5", "0", "%">>
TxFree == <<"F", "r", "e", "e">>
Tx999 == <<"$", "9", ".", "9", "9">>
Tx1999 == <<"$", "1", "9", ".", "9", "9">>
Tx1234 == <<"$", "1", ",", "2", "3", "4", ".", "5", "0">>

GbItem(n, d, p) == [name |-> n, discount |-> d, price |-> p]

\* item arrays a Gamebillet listing page may show
GamebilletPages ==
    { <<>>,
      << GbItem(Elem(<<"A">>), Elem(TxSale25), Elem(Tx999)),
         GbItem(Elem(<<"B">>), Elem(TxEmpty), Elem(TxEmpty)) >>,
      << GbItem(Elem(<<"C">>), Elem(TxMinus150), Elem(Tx1234)),
         GbItem(Elem(<<"D">>), Elem(TxSale), Elem(TxFree)) >>,
      << GbItem(Elem(<<"A">>), Elem(TxSale25), Elem(Tx999)),
         GbItem(NoElem, Elem(TxSale25), Elem(Tx999)),
         GbItem(Elem(<<"B">>), Elem(TxMinus50), Elem(Tx1999)) >>,
      << GbItem(Elem(<<"E">>), NoElem, Elem(Tx999)) >>,
      << GbItem(Elem(<<"F">>), Elem(TxMinus50), NoElem) >> }

GpItem(n, p, b, s) == [name |-> n, price |-> p, base |-> b, saving |-> s]

\* item arrays a Gamesplanet listing page may show
GamesplanetPages ==
    { <<>>,
      << GpItem(Elem(<<"A">>), Elem(Tx999), Elem(Tx1999), Elem(TxMinus50)),
         GpItem(Elem(<<"B">>), Elem(Tx1999), NoElem, NoElem) >>,
      << GpItem(Elem(<<"C">>), Elem(Tx1234), NoElem, Elem(TxMinus50)),
         GpItem(Elem(<<"D">>), Elem(Tx1999), Elem(Tx999), Elem(TxMinus150)) >>,
      << GpItem(Elem(<<"A">>), Elem(Tx999), Elem(Tx1999), Elem(TxMinus50)),
         GpItem(NoElem, Elem(Tx999), NoElem, NoElem),
         GpItem(Elem(<<"B">>), Elem(Tx1999), NoElem, NoElem) >>,
      << GpItem(Elem(<<"E">>), Elem(TxEmpty), NoElem, NoElem) >>,
      << GpItem(Elem(<<"F">>), Elem(Tx999), Elem(Tx1999), NoElem) >>,
      << GpItem(Elem(<<"G">>), Elem(Tx999), Elem(Tx1999), Elem(TxEmpty)) >> }

\* what the lookup of the next-page control finds on a page
GamebilletNext == {"link", "sentinel", "absent"}
GamesplanetNext == {"present", "notfound", "fault"}

Page(items, next) == [items |-> items, next |-> next]

SeqsUpTo(S, n) == UNION {[1..k -> S] : k \in 1..n}

\* a Gamebillet catalog is finite: its last page links no further
GamebilletSites ==
    { s \in SeqsUpTo({Page(i, x) : i \in GamebilletPages, x \in GamebilletNext},
                     MaxPages) : s[Len(s)].next # "link" }

GamesplanetSites ==
    SeqsUpTo({Page(i, x) : i \in GamesplanetPages, x \in GamesplanetNext}, MaxPages)

DigitText(k) == << CHOOSE c \in Digits : DigitVal(c) = k >>

\* the pager element whose text is the page count
PagerElems ==
    {Elem(DigitText(k)) : k \in 0..(MaxPages + 1)} \cup {NoElem, Elem(TxFree)}

(***************************************************************************)
(* Indiegala bundle pages.  A carousel is the cyclic sequence of its       *)
(* slides' titles.  The loop only compares titles for equality, so titles  *)
(* are taken up to renaming: the first slide is G1, and a slide either     *)
(* repeats an earlier title or takes the next unused one.                  *)
(***************************************************************************)
TitleOf(k) == <<"G">> \o DigitText(k)

Carousels ==
    { [i \in DOMAIN f |-> TitleOf(f[i])] :
        f \in UNION { { g \in [1..k -> 1..k] :
                          /\ g[1] = 1
                          /\ \A i \in 2..k :
                                \E j \in 1..(i - 1) : g[i] <= g[j] + 1 }
                     : k \in 1..MaxSlides } }

Bundle(price, name, slides, ends) ==
    [price |-> price, name |-> name, slides |-> slides, ends |-> ends]

BundleSites ==
    UNION { [1..k -> { Bundle(p, "bundle", c, "2d") :
                         p \in {Elem(Tx999), Elem(TxFree)}, c \in Carousels }]
            : k \in 0..MaxBundles }

Min(S) == CHOOSE x \in S : \A y \in S : x <= y

(***************************************************************************)
(* Gamebillet.download, the body of the loop over the items of a page      *)
(* (flat shape).                                                           *)
(***************************************************************************)
SalePrefix == <<"S", "a", "l", "e">>

GamebilletPrice(name, percent_discount, price) ==
    [name |-> name, percent_discount |-> percent_discount, price |-> price]

\* an extraction that tolerates a missing name element
GamebilletRaisesUnnamed(item) ==
    \/ ~item.discount.found
    \/ ~item.price.found

\* query_selector(...).text on a missing element: AttributeError, not caught
GamebilletRaises(item) ==
    \/ ~item.name.found
    \/ ~item.discount.found
    \/ ~item.price.found

\* try: int(...) except ValueError: 0
GamebilletDiscount(discount_str) ==
    LET t == Remove(Remove(RemovePrefix(discount_str, SalePrefix), "-"), "%")
    IN  IF IntOk(t) THEN IntVal(t) ELSE 0

\* try: float(...) except ValueError: 0
GamebilletPriceOf(price_str) ==
    LET t == Remove(Remove(price_str, "$"), ",")
    IN  IF FloatOk(t) THEN FloatVal(t) ELSE Zero

GamebilletRecord(item) ==
    GamebilletPrice(item.name.text,
                    GamebilletDiscount(item.discount.text),
                    GamebilletPriceOf(item.price.text))

(***************************************************************************)
(* Gamesplanet.steam, the body of the loop over the items of a page        *)
(* (simple shape).  No conversion is guarded by try/except.                *)
(***************************************************************************)
GamesplanetPrice(name, original_price, discount, price) ==
    [name |-> name, original_price |-> original_price,
     discount |-> discount, price |-> price]

GamesplanetPriceText(price_str) == Remove(Remove(price_str, "$"), ",")

GamesplanetBaseText(base_str) ==
    Remove(Remove(Remove(base_str, "$"), "%"), ",")

GamesplanetSavingText(discount_str) ==
    Remove(Remove(Remove(discount_str, "-"), "%"), ",")

GamesplanetRaises(item) ==
    \/ ~item.name.found
    \/ ~item.price.found
    \/ ~FloatOk(GamesplanetPriceText(item.price.text))
    \/ /\ item.base.found
       /\ \/ ~FloatOk(GamesplanetBaseText(item.base.text))
          \/ ~item.saving.found
          \/ ~IntOk(GamesplanetSavingText(item.saving.text))

\* the struck price and the current price taken for each other
GamesplanetRecordSwapped(item) ==
    LET price == FloatVal(GamesplanetPriceText(item.price.text)) IN
    IF item.base.found
    THEN GamesplanetPrice(item.name.text,
                          price,
                          IntVal(GamesplanetSavingText(item.saving.text)),
                          FloatVal(GamesplanetBaseText(item.base.text)))
    ELSE GamesplanetPrice(item.name.text, price, 0, price)

GamesplanetRecord(item) ==
    LET price == FloatVal(GamesplanetPriceText(item.price.text)) IN
    IF item.base.found
    THEN GamesplanetPrice(item.name.text,
                          FloatVal(GamesplanetBaseText(item.base.text)),
                          IntVal(GamesplanetSavingText(item.saving.text)),
                          price)
    ELSE GamesplanetPrice(item.name.text, price, 0, price)

(***************************************************************************)
(* for item in items: ... output.append(...).  The loop stops at the first *)
(* item that raises; out holds the records appended before it.             *)
(***************************************************************************)
GamebilletExtract(items) ==
    LET bad == {i \in 1..Len(items) : GamebilletRaises(items[i])}
        n == IF bad = {} THEN Len(items) ELSE Min(bad) - 1
    IN  [ok |-> bad = {}, out |-> [i \in 1..n |-> GamebilletRecord(items[i])]]

GamesplanetExtract(items) ==
    LET bad == {i \in 1..Len(items) : GamesplanetRaises(items[i])}
        n == IF bad = {} THEN Len(items) ELSE Min(bad) - 1
    IN  [ok |-> bad = {}, out |-> [i \in 1..n |-> GamesplanetRecord(items[i])]]

(***************************************************************************)
(* normalize.py: names and their normal form.                              *)
(***************************************************************************)
Whitespace == {" ", "\t", "\n"}

UpperCase == <<"A", "B", "C", "D", "E", "F", "G", "H", "I", "J", "K", "L", "M",
               "N", "O", "P", "Q", "R", "S", "T", "U", "V", "W", "X", "Y", "Z">>

LowerCase == <<"a", "b", "c", "d", "e", "f", "g", "h", "i", "j", "k", "l", "m",
               "n", "o", "p", "q", "r", "s", "t", "u", "v", "w", "x", "y", "z">>

IsUpper(c) == \E i \in DOMAIN UpperCase : UpperCase[i] = c

\* str.lower()
Lower(s) ==
    [i \in DOMAIN s |->
        IF IsUpper(s[i])
        THEN LowerCase[CHOOSE k \in DOMAIN UpperCase : UpperCase[k] = s[i]]
        ELSE s[i]]

\* s without its leading whitespace characters
RECURSIVE SkipSpace(_)
SkipSpace(s) ==
    IF s # <<>> /\ Head(s) \in Whitespace THEN SkipSpace(Tail(s)) ELSE s

\* re.sub(r"\s+", " ", s): every maximal run of whitespace becomes one blank
RECURSIVE Collapse(_)
Collapse(s) ==
    IF s = <<>> THEN <<>>
    ELSE IF Head(s) \in Whitespace
         THEN <<" ">> \o Collapse(SkipSpace(s))
         ELSE <<Head(s)>> \o Collapse(Tail(s))

\* normalize without the strip
normalizeUnstripped(s) == Lower(Collapse(s))

\* normalize(s): re.sub(r"\s+", " ", s).strip().lower()
normalize(s) == Lower(Strip(Collapse(s)))

\* steam.py line 52: re.sub(r"\s+", " ", item["name"]).strip()
CollapseStrip(s) == Strip(Collapse(s))

NameFoo == <<"F", "o", "o">>
NameBar == <<"B", "a", "r">>
NameFooLower == <<"f", "o", "o">>
NameBarUpper == <<"B", "A", "R">>
NameBaz == <<"B", "a", "z">>
NameFooBar == <<"F", "o", "o", " ", "B", "a", "r">>
NameFooBarLower == <<"f", "o", "o", " ", "b", "a", "r">>
NameFooBarSpaced ==
    <<" ", " ", "F", "o", "o", " ", "\t", " ", "B", "a", "r", " ", " ">>

\* every text of at most MaxNameLen characters over a letter and two
\* whitespace characters
ShortTexts == UNION {[1..k -> {"A", " ", "\t"}] : k \in 0..MaxNameLen}

(***************************************************************************)
(* The reference catalog (steam.py Item) and the files normalize.main      *)
(* reads.                                                                  *)
(***************************************************************************)
Item(name, appid, purchase_options) ==
    [name |-> name, appid |-> appid, purchase_options |-> purchase_options]

\* catalogs of items that share names up to case and whitespace; the appid
\* of an item is its position, so appids are distinct
Catalogs ==
    {[i \in DOMAIN c |-> Item(c[i][1], i, c[i][2])] :
        c \in SeqsUpTo({NameFoo, NameFooBar, NameFooBarLower}
                       \X {<<>>, <<NameFooBarSpaced>>}, MaxItems)}
    \cup {<<Item(NameFoo, 1, <<>>), Item(NameBar, 2, <<>>)>>}
    \cup {<<Item(t, 1, <<>>)>> : t \in ShortTexts}

CatalogNames(c) == [i \in DOMAIN c |-> c[i].name]

RECURSIVE OptionNames(_)
OptionNames(c) ==
    IF c = <<>> THEN <<>> ELSE Head(c).purchase_options \o OptionNames(Tail(c))

\* temp/steam_names.txt is made from the catalog outside sbase: it lists the
\* names of the items, with or without the names of their purchase options
NameFiles(c) == {CatalogNames(c), CatalogNames(c) \o OptionNames(c)}

\* a snapshot file: missing, not the JSON its loader expects, or readable
\* with the names of its entries
Snapshot(status, names) == [status |-> status, names |-> names]

SnapshotFiles ==
    SeqsUpTo({Snapshot("missing", <<>>), Snapshot("malformed", <<>>),
              Snapshot("ok", <<NameFooLower, NameBarUpper, NameBaz>>),
              Snapshot("ok", <<NameFooBarSpaced>>)}, MaxFiles)

(***************************************************************************)
(* The feed Indiegala.fetch pages through: what page p reports in its      *)
(* currentPage and totalPages elements, or a page without them.            *)
(***************************************************************************)
FeedPage(currentPage, totalPages) ==
    [ok |-> TRUE, currentPage |-> currentPage, totalPages |-> totalPages]

NoFeed == [ok |-> FALSE, currentPage |-> 0, totalPages |-> 0]

Feeds ==
    [1..MaxFetch -> {FeedPage(c, t) : c \in {0, 1, 2}, t \in {0, 1, 2}} \cup {NoFeed}]

(***************************************************************************)
(* State.                                                                  *)
(***************************************************************************)
VARIABLES
    op,           \* the sub-command main.py dispatched
    site,         \* the listing pages the retailer serves
    pager,        \* Gamesplanet: the pager element holding the page count
    pc,           \* position of the run
    cur,          \* the page the browser shows
    count,        \* Gamebillet's count, Gamesplanet's i
    total_pages,  \* Gamesplanet's total_pages
    output,       \* the records of the page being extracted
    buf,          \* arrays written to f and still in its buffer
    disk,         \* arrays of f that reached the file
    queried,      \* the pages select_all was called on, in order
    clicks,       \* number of clicks on the next-page control
    lookup,       \* what the last lookup of the next-page control found
    err,          \* the call that raised, when pc = "error"
    anchors,      \* Indiegala: the bundles the bundles page links to
    b,            \* Indiegala.bundles: index i of the bundle being visited
    slide,        \* the carousel slide that is active
    seen,         \* Indiegala.bundles: seen
    games,        \* Indiegala.bundles: games
    bundles,      \* Indiegala.bundles: bundles
    reads,        \* number of title reads in the current carousel loop
    saved,        \* content of bundles.json
    settled,      \* a settle delay elapsed since the last navigation
    appinfo,      \* the reference catalog: output/steam/appinfo.jsonl
    steam_names,  \* content of temp/steam_names.txt
    files,        \* normalize.main: the snapshot files of files, in order
    steam_set,    \* normalize.main: steam_set
    fi,           \* normalize.main: index of the (file, loader) pair taken
    names_set,    \* normalize.main: names_set
    diff,         \* normalize.main: diff
    reported,     \* normalize.main: what the loop printed, per file
    steam_items,  \* steam.main: steam_items
    counts,       \* steam.main: counts
    reused,       \* steam.main: reused
    feed,         \* Indiegala.fetch: what the feed reports on each page
    page,         \* Indiegala.fetch: page
    current_page, \* Indiegala.fetch: current_page
    feed_pages,   \* Indiegala.fetch: total_pages
    written       \* Indiegala.fetch: the files written, by number

listingVars == <<site, pager, cur, count, total_pages, output, buf, disk,
                 queried, clicks, lookup, settled>>

bundleVars == <<anchors, b, slide, seen, games, bundles, reads, saved>>

reconVars == <<appinfo, steam_names, files, steam_set, fi, names_set, diff,
               reported, steam_items, counts, reused>>

fetchVars == <<feed, page, current_page, feed_pages, written>>

vars == <<op, pc, err, listingVars, bundleVars, reconVars, fetchVars>>

Init ==
    /\ op \in {"gamebillet", "gamesplanet", "bundles", "fetch", "normalize", "steam"}
    /\ site \in CASE op = "gamebillet" -> GamebilletSites
                [] op = "gamesplanet" -> GamesplanetSites
                [] OTHER -> {<<>>}
    /\ pager \in IF op = "gamesplanet" THEN PagerElems ELSE {NoElem}
    /\ pc = "start"
    /\ cur = 0
    /\ count = 0
    /\ total_pages = 0
    /\ output = <<>>
    /\ buf = <<>>
    /\ disk = <<>>
    /\ queried = <<>>
    /\ clicks = 0
    /\ lookup = "none"
    /\ err = "none"
    /\ anchors \in IF op = "bundles" THEN BundleSites ELSE {<<>>}
    /\ b = 0
    /\ slide = 0
    /\ seen = {}
    /\ games = <<>>
    /\ bundles = <<>>
    /\ reads = 0
    /\ saved = <<>>
    /\ settled = FALSE
    /\ appinfo \in IF op \in {"normalize", "steam"} THEN Catalogs ELSE {<<>>}
    /\ steam_names \in IF op = "normalize" THEN NameFiles(appinfo) ELSE {<<>>}
    /\ files \in IF op = "normalize" THEN SnapshotFiles ELSE {<<>>}
    /\ steam_set = {}
    /\ fi = 0
    /\ names_set = {}
    /\ diff = {}
    /\ reported = <<>>
    /\ steam_items = <<>>
    /\ counts = <<>>
    /\ reused = {}
    /\ feed \in IF op = "fetch" THEN Feeds ELSE {<<>>}
    /\ page = 0
    /\ current_page = 0
    /\ feed_pages = 0
    /\ written = <<>>

\* f.write on a buffered file: the buffer is written out when it fills up,
\* which depends on the sizes written; otherwise the data stays in it
FileWrite(array) ==
    \/ /\ buf' = Append(buf, array)
       /\ disk' = disk
    \/ /\ buf' = <<>>
       /\ disk' = disk \o Append(buf, array)

\* f.flush(); f.close()
FileClose ==
    /\ disk' = disk \o buf
    /\ buf' = <<>>

\* a click that does not navigate
ClickStays ==
    /\ clicks' = clicks + 1
    /\ cur' = cur
    /\ settled' = FALSE

\* sb.cdp.click(css_next_page): a control that is not functional leaves the page
Click ==
    /\ clicks' = clicks + 1
    /\ cur' = IF cur < Len(site) THEN cur + 1 ELSE cur
    /\ settled' = FALSE

\* the query follows the navigation without a delay
SettleSkipped == settled' = settled

\* sb.cdp.sleep(1.2 + random.random()), sb.cdp.sleep(1.1 + random.random())
Settle == settled' = TRUE

Raise(what) ==
    /\ pc' = "error"
    /\ err' = what

(***************************************************************************)
(* Gamebillet.download                                                     *)
(***************************************************************************)
\* a lookup that finds no control taken as the end of the listing
NextAbsentBreaks == pc' = "close" /\ err' = err

\* lines 99-100: the lookup of a control that is not on the page raises
NextAbsent == Raise("find")

\* lines 41-59: open f, open the browser on url, count = 0
GbOpen ==
    /\ op = "gamebillet" /\ pc = "start"
    /\ cur' = 1
    /\ settled' = FALSE
    /\ count' = 0
    /\ pc' = "sleep"
    /\ UNCHANGED <<bundleVars, reconVars, fetchVars>>
    /\ UNCHANGED <<op, site, pager, lookup, total_pages, output, buf, disk, queried,
                   clicks, err>>

\* lines 61-67: output = [], count += 1, settle delay
GbSleep ==
    /\ op = "gamebillet" /\ pc = "sleep"
    /\ output' = <<>>
    /\ count' = count + 1
    /\ Settle
    /\ pc' = "select"
    /\ UNCHANGED <<bundleVars, reconVars, fetchVars>>
    /\ UNCHANGED <<op, site, pager, lookup, cur, total_pages, buf, disk, queried,
                   clicks, err>>

\* lines 69-90: select_all and the loop over the items
GbExtract ==
    /\ op = "gamebillet" /\ pc = "select"
    /\ queried' = Append(queried, cur)
    /\ LET r == GamebilletExtract(site[cur].items) IN
       /\ output' = r.out
       /\ IF r.ok THEN pc' = "dump" /\ err' = err ELSE Raise("item")
    /\ UNCHANGED <<bundleVars, reconVars, fetchVars>>
    /\ UNCHANGED <<op, site, pager, settled, lookup, cur, count, total_pages, buf, disk, clicks>>

\* lines 96-97: json.dump(output, f); f.write("\n")
GbDump ==
    /\ op = "gamebillet" /\ pc = "dump"
    /\ FileWrite(output)
    /\ pc' = "advance"
    /\ UNCHANGED <<bundleVars, reconVars, fetchVars>>
    /\ UNCHANGED <<op, site, pager, settled, lookup, cur, count, total_pages, output, queried,
                   clicks, err>>

\* lines 99-104: find the next control, break on the sentinel href, else click
GbAdvance ==
    /\ op = "gamebillet" /\ pc = "advance"
    /\ lookup' = site[cur].next
    /\ CASE site[cur].next = "absent" ->
              NextAbsent /\ UNCHANGED <<cur, clicks, settled>>
         [] site[cur].next = "sentinel" ->
              pc' = "close" /\ UNCHANGED <<cur, clicks, settled, err>>
         [] site[cur].next = "link" ->
              Click /\ pc' = "sleep" /\ err' = err
    /\ UNCHANGED <<bundleVars, reconVars, fetchVars>>
    /\ UNCHANGED <<op, site, pager, count, total_pages, output, buf, disk, queried>>

\* lines 106-107: f.flush(); f.close()
GbClose ==
    /\ op = "gamebillet" /\ pc = "close"
    /\ FileClose
    /\ pc' = "done"
    /\ UNCHANGED <<bundleVars, reconVars, fetchVars>>
    /\ UNCHANGED <<op, site, pager, settled, lookup, cur, count, total_pages, output, queried,
                   clicks, err>>

(***************************************************************************)
(* Gamesplanet.steam                                                       *)
(***************************************************************************)
\* lines 33-54: open f, open the browser, read total_pages from the pager;
\* range(1, total_pages + 1) is empty when total_pages < 1
GpOpen ==
    /\ op = "gamesplanet" /\ pc = "start"
    /\ cur' = 1
    /\ settled' = FALSE
    /\ IF pager.found /\ IntOk(pager.text)
       THEN /\ total_pages' = IntVal(pager.text)
            /\ count' = IF total_pages' >= 1 THEN 1 ELSE 0
            /\ pc' = IF total_pages' >= 1 THEN "sleep" ELSE "close"
            /\ err' = err
       ELSE /\ Raise("pager")
            /\ UNCHANGED <<total_pages, count>>
    /\ UNCHANGED <<bundleVars, reconVars, fetchVars>>
    /\ UNCHANGED <<op, site, pager, lookup, output, buf, disk, queried, clicks>>

\* lines 55-60: output = [], settle delay
GpSleep ==
    /\ op = "gamesplanet" /\ pc = "sleep"
    /\ output' = <<>>
    /\ Settle
    /\ pc' = "select"
    /\ UNCHANGED <<bundleVars, reconVars, fetchVars>>
    /\ UNCHANGED <<op, site, pager, lookup, cur, count, total_pages, buf, disk, queried,
                   clicks, err>>

\* lines 62-94: select_all and the loop over the items
GpExtract ==
    /\ op = "gamesplanet" /\ pc = "select"
    /\ queried' = Append(queried, cur)
    /\ LET r == GamesplanetExtract(site[cur].items) IN
       /\ output' = r.out
       /\ IF r.ok THEN pc' = "dump" /\ err' = err ELSE Raise("item")
    /\ UNCHANGED <<bundleVars, reconVars, fetchVars>>
    /\ UNCHANGED <<op, site, pager, settled, lookup, cur, count, total_pages, buf, disk, clicks>>

\* lines 100-101: json.dump(output, f); f.write("\n")
GpDump ==
    /\ op = "gamesplanet" /\ pc = "dump"
    /\ FileWrite(output)
    /\ pc' = "advance"
    /\ UNCHANGED <<bundleVars, reconVars, fetchVars>>
    /\ UNCHANGED <<op, site, pager, settled, lookup, cur, count, total_pages, output, queried,
                   clicks, err>>

\* a loop that runs once more than total_pages
GpLoopInclusive ==
    IF count <= total_pages
    THEN count' = count + 1 /\ pc' = "sleep"
    ELSE count' = count /\ pc' = "close"

\* the for statement takes the next i, or ends the loop
GpLoop ==
    IF count < total_pages
    THEN count' = count + 1 /\ pc' = "sleep"
    ELSE count' = count /\ pc' = "close"

\* lines 103-108: try: if find(next): click(next)  except Exception: break
GpAdvance ==
    /\ op = "gamesplanet" /\ pc = "advance"
    /\ lookup' = site[cur].next
    /\ IF site[cur].next = "present"
       THEN Click /\ GpLoop
       ELSE pc' = "close" /\ UNCHANGED <<cur, clicks, settled, count>>
    /\ UNCHANGED <<bundleVars, reconVars, fetchVars>>
    /\ UNCHANGED <<op, site, pager, total_pages, output, buf, disk, queried, err>>

\* lines 110-111: f.flush(); f.close()
GpClose ==
    /\ op = "gamesplanet" /\ pc = "close"
    /\ FileClose
    /\ pc' = "done"
    /\ UNCHANGED <<bundleVars, reconVars, fetchVars>>
    /\ UNCHANGED <<op, site, pager, settled, lookup, cur, count, total_pages, output, queried,
                   clicks, err>>

(***************************************************************************)
(* Indiegala.bundles                                                       *)
(***************************************************************************)
Game(name, developer) == [name |-> name, developer |-> developer]

BundleRecord(price, name, gs, active_until) ==
    [price |-> price, name |-> name, games |-> gs, active_until |-> active_until]

BundlePriceText(price_str) == Remove(Remove(price_str, "$"), ",")

\* a test against the game collected last only
RepeatedLast(name, s) == games # <<>> /\ name = games[Len(games)].name

\* line 83: if name in seen
Repeated(name, s) == name \in s

\* collecting without seen.add
CollectUnseen(name) ==
    /\ games' = Append(games, Game(name, "developer"))
    /\ seen' = seen

\* lines 89-90: games.append(Game(name, developer).__dict__); seen.add(name)
Collect(name) ==
    /\ games' = Append(games, Game(name, "developer"))
    /\ seen' = seen \cup {name}

\* the carousel's next control: the slide after the last is the first
NextSlide == slide' = (slide % Len(anchors[b].slides)) + 1

\* lines 41-61: open the bundles page, read anchors, names, expirations;
\* the for statement takes the first anchor, if any
BnOpen ==
    /\ op = "bundles" /\ pc = "start"
    /\ IF anchors # <<>>
       THEN b' = 1 /\ pc' = "bundle"
       ELSE b' = b /\ pc' = "save"
    /\ UNCHANGED <<op, err, listingVars, reconVars, fetchVars, anchors, slide, seen, games, bundles,
                   reads, saved>>

\* lines 64-76: open the bundle, read its price, seen = set(), games = []
BnBundle ==
    /\ op = "bundles" /\ pc = "bundle"
    /\ LET e == anchors[b].price IN
       IF e.found /\ FloatOk(BundlePriceText(e.text))
       THEN /\ seen' = {}
            /\ games' = <<>>
            /\ slide' = 1
            /\ reads' = 0
            /\ pc' = "read"
            /\ err' = err
       ELSE /\ Raise("price")
            /\ UNCHANGED <<seen, games, slide, reads>>
    /\ UNCHANGED <<op, listingVars, reconVars, fetchVars, anchors, b, bundles, saved>>

\* lines 80-90: read the active slide's title; break if seen, else collect it
BnRead ==
    /\ op = "bundles" /\ pc = "read"
    /\ reads' = reads + 1
    /\ LET name == anchors[b].slides[slide] IN
       IF Repeated(name, seen)
       THEN pc' = "append" /\ UNCHANGED <<games, seen>>
       ELSE pc' = "next" /\ Collect(name)
    /\ UNCHANGED <<op, err, listingVars, reconVars, fetchVars, anchors, b, slide, bundles, saved>>

\* lines 93-94: click the carousel's next control, wait
BnNext ==
    /\ op = "bundles" /\ pc = "next"
    /\ NextSlide
    /\ pc' = "read"
    /\ UNCHANGED <<op, err, listingVars, reconVars, fetchVars, anchors, b, seen, games, bundles,
                   reads, saved>>

\* lines 96-99: bundles.append(Bundle(...)); the for statement takes the
\* next anchor, or ends
BnAppend ==
    /\ op = "bundles" /\ pc = "append"
    /\ bundles' = Append(bundles,
                         BundleRecord(FloatVal(BundlePriceText(anchors[b].price.text)),
                                      anchors[b].name, games, anchors[b].ends))
    /\ IF b < Len(anchors)
       THEN b' = b + 1 /\ pc' = "bundle"
       ELSE b' = b /\ pc' = "save"
    /\ UNCHANGED <<op, err, listingVars, reconVars, fetchVars, anchors, slide, seen, games, reads, saved>>

\* lines 101-103: json.dump(bundles, f)
BnSave ==
    /\ op = "bundles" /\ pc = "save"
    /\ saved' = bundles
    /\ pc' = "done"
    /\ UNCHANGED <<op, err, listingVars, reconVars, fetchVars, anchors, b, slide, seen, games,
                   bundles, reads>>

(***************************************************************************)
(* normalize.main                                                          *)
(***************************************************************************)
SetOf(s) == {s[i] : i \in DOMAIN s}

\* a loader that returns the names as the file has them
loaderRaw(file) == file.names

\* load_algolia, load_gamesplanet, load_single_field: normalize of the name
\* of every entry of the file, in order
loader(file) == [i \in DOMAIN file.names |-> normalize(file.names[i])]

\* lines 36-41: read temp/steam_names.txt, steam_set; the for statement takes
\* the first (file, loader) pair
NzOpen ==
    /\ op = "normalize" /\ pc = "start"
    /\ steam_set' = {normalize(steam_names[i]) : i \in DOMAIN steam_names}
    /\ fi' = 1
    /\ pc' = "file"
    /\ UNCHANGED <<op, err, listingVars, bundleVars, fetchVars, appinfo,
                   steam_names, files, names_set, diff, reported, steam_items,
                   counts, reused>>

\* lines 43-54: one iteration of the loop: load the file (open and json.loads
\* raise on a missing or malformed file), print the sizes of names_set and
\* of diff; then the for statement takes the next pair, or ends
NzFile ==
    /\ op = "normalize" /\ pc = "file"
    /\ IF files[fi].status = "ok"
       THEN /\ names_set' = SetOf(loader(files[fi]))
            /\ diff' = names_set' \ steam_set
            /\ reported' = Append(reported, [file |-> fi,
                                             names |-> Cardinality(names_set'),
                                             diff |-> Cardinality(diff')])
            /\ IF fi < Len(files)
               THEN fi' = fi + 1 /\ pc' = pc
               ELSE fi' = fi /\ pc' = "done"
            /\ err' = err
       ELSE /\ Raise("load")
            /\ UNCHANGED <<names_set, diff, reported, fi>>
    /\ UNCHANGED <<op, listingVars, bundleVars, fetchVars, appinfo, steam_names,
                   files, steam_set, steam_items, counts, reused>>

(***************************************************************************)
(* steam.main                                                              *)
(***************************************************************************)
\* lines 48-67: load the catalog, tidy the names of the items, steam_items
StLoad ==
    /\ op = "steam" /\ pc = "start"
    /\ steam_items' = [i \in DOMAIN appinfo |->
                          Item(CollapseStrip(appinfo[i].name), appinfo[i].appid,
                               appinfo[i].purchase_options)]
    /\ pc' = "counts"
    /\ UNCHANGED <<op, err, listingVars, bundleVars, fetchVars, appinfo,
                   steam_names, files, steam_set, fi, names_set, diff, reported,
                   counts, reused>>

\* the appids counts holds for the key k after lines 69-73
CountsOf(k) ==
    {steam_items[i].appid : i \in
        {j \in DOMAIN steam_items :
            \/ steam_items[j].name = k
            \/ k \in SetOf(steam_items[j].purchase_options)}}

\* lines 69-73: counts[item.name].add(item.appid) and, for every purchase
\* option, counts[subitem["purchase_option_name"]].add(item.appid)
StCount ==
    /\ op = "steam" /\ pc = "counts"
    /\ counts' = [k \in SetOf(CatalogNames(steam_items))
                        \cup SetOf(OptionNames(steam_items)) |-> CountsOf(k)]
    /\ pc' = "reused"
    /\ UNCHANGED <<op, err, listingVars, bundleVars, fetchVars, appinfo,
                   steam_names, files, steam_set, fi, names_set, diff, reported,
                   steam_items, reused>>

\* line 77: reused = [k for k in counts.keys() if len(counts[k]) > 1]
StReused ==
    /\ op = "steam" /\ pc = "reused"
    /\ reused' = {k \in DOMAIN counts : Cardinality(counts[k]) > 1}
    /\ pc' = "done"
    /\ UNCHANGED <<op, err, listingVars, bundleVars, fetchVars, appinfo,
                   steam_names, files, steam_set, fi, names_set, diff, reported,
                   steam_items, counts>>

(***************************************************************************)
(* Indiegala.fetch                                                         *)
(***************************************************************************)
\* the loop ends when the counter reaches the reported number of pages
LastPageByCounter == page = feed_pages

\* line 147: if current_page == total_pages
LastPage == current_page = feed_pages

\* lines 106-118: open the browser on url, page = 1, current_page = 1,
\* total_pages = 0
FtOpen ==
    /\ op = "fetch" /\ pc = "start"
    /\ page' = 1
    /\ current_page' = 1
    /\ feed_pages' = 0
    /\ pc' = "fetch"
    /\ UNCHANGED <<op, err, listingVars, bundleVars, reconVars, feed, written>>

\* lines 121-145: parse the page, read currentPage and totalPages (int of the
\* text of an element that is not there raises), write {page}.xml
FtFetch ==
    /\ op = "fetch" /\ pc = "fetch"
    /\ IF feed[page].ok
       THEN /\ current_page' = feed[page].currentPage
            /\ feed_pages' = feed[page].totalPages
            /\ written' = Append(written, page)
            /\ pc' = "test"
            /\ err' = err
       ELSE /\ Raise("feed")
            /\ UNCHANGED <<current_page, feed_pages, written>>
    /\ UNCHANGED <<op, listingVars, bundleVars, reconVars, feed, page>>

\* lines 147-154: break on the last page, else page += 1 and open the next
\* url; the model follows the feed for MaxFetch pages
FtTest ==
    /\ op = "fetch" /\ pc = "test"
    /\ IF LastPage
       THEN pc' = "done" /\ page' = page
       ELSE page < MaxFetch /\ page' = page + 1 /\ pc' = "fetch"
    /\ UNCHANGED <<op, err, listingVars, bundleVars, reconVars, feed,
                   current_page, feed_pages, written>>

Next ==
    \/ BnOpen \/ BnBundle \/ BnRead \/ BnNext \/ BnAppend \/ BnSave
    \/ GbOpen \/ GbSleep \/ GbExtract \/ GbDump \/ GbAdvance \/ GbClose
    \/ GpOpen \/ GpSleep \/ GpExtract \/ GpDump \/ GpAdvance \/ GpClose
    \/ NzOpen \/ NzFile
    \/ StLoad \/ StCount \/ StReused
    \/ FtOpen \/ FtFetch \/ FtTest

Spec == Init /\ [][Next]_vars

(***************************************************************************)
(* Vocabulary of the properties.                                           *)
(***************************************************************************)
Listing == op \in {"gamebillet", "gamesplanet"}

UpTo(n) == [k \in 1..n |-> k]

ItemNames(items) == [i \in 1..Len(items) |-> items[i].name.text]

RecordNames(array) == [i \in 1..Len(array) |-> array[i].name]

Nameless(items) == {i \in 1..Len(items) : ~items[i].name.found}

Distinct(c) == \A i, j \in 1..Len(c) : c[i] = c[j] => i = j

\* a field that shows no number: absent, empty or without any digit
NoNumber(e) == ~e.found \/ \A i \in 1..Len(e.text) : e.text[i] \notin Digits

\* the amounts the price texts of the pages show, as a reader takes them
Shown(t) ==
    CASE t = Tx999 -> [n |-> 999, d |-> 2]
      [] t = Tx1999 -> [n |-> 1999, d |-> 2]
      [] t = Tx1234 -> [n |-> 12345, d |-> 1]

\* the percentages the savings texts of the pages show
ShownPercent(t) ==
    CASE t = TxMinus50 -> 50
      [] t = TxMinus150 -> 150
      [] t = TxSale25 -> 25

\* the item whose extraction raised
FailingItem == site[cur].items[Len(output) + 1]

(***************************************************************************)
(* C1: under the probe policy (Gamesplanet.steam), a next-control lookup   *)
(* that fails for a reason other than "control absent" ends the run in a   *)
(* fatal error, never in a normal termination.                             *)
(***************************************************************************)
C1_FaultIsFatal ==
    (op = "gamesplanet" /\ lookup = "fault") => pc = "error"

(***************************************************************************)
(* C2: under the explicit-disabled policy (Gamebillet.download), when page *)
(* N is the first whose next control carries the sentinel href, the run    *)
(* never queries more than N pages nor clicks more than N-1 times; when it *)
(* is done it has queried pages 1..N once each in order, clicked N-1       *)
(* times, and the file holds the N pages' arrays in page order; and when   *)
(* pages 1..N-1 have a next link and no item of pages 1..N lacks an        *)
(* element, the run does not fail.                                         *)
(***************************************************************************)
C2_FirstSentinel(N) ==
    /\ site[N].next = "sentinel"
    /\ \A k \in 1..(N - 1) : site[k].next # "sentinel"

C2_Sound(N) ==
    \A k \in 1..N :
        /\ k < N => site[k].next = "link"
        /\ \A i \in 1..Len(site[k].items) :
             LET it == site[k].items[i] IN
             it.name.found /\ it.discount.found /\ it.price.found

C2_ExplicitDisabled ==
    op = "gamebillet" =>
      \A N \in 1..Len(site) : C2_FirstSentinel(N) =>
        /\ Len(queried) <= N
        /\ queried = UpTo(Len(queried))
        /\ clicks <= N - 1
        /\ pc = "done" =>
             /\ queried = UpTo(N)
             /\ clicks = N - 1
             /\ buf = <<>>
             /\ Len(disk) = N
             /\ \A k \in 1..N : RecordNames(disk[k]) = ItemNames(site[k].items)
        /\ C2_Sound(N) => pc # "error"

C2_Witness ==
    /\ op = "gamebillet" /\ pc = "done"
    /\ Len(site) = 2 /\ site[1].next = "link" /\ site[2].next = "sentinel"
    /\ queried = <<1, 2>> /\ clicks = 1
    /\ Len(disk) = 2 /\ disk[1] # <<>> /\ disk[2] # <<>> /\ disk[1] # disk[2]

(***************************************************************************)
(* C3 as stated: under the probe policy, when the lookup succeeds on every *)
(* page but the last and raises "not found" on the last, the finished run  *)
(* has extracted every page exactly once, in order, up to the last page.   *)
(***************************************************************************)
C3_Pre ==
    /\ op = "gamesplanet"
    /\ \A k \in 1..(Len(site) - 1) : site[k].next = "present"
    /\ site[Len(site)].next = "notfound"

C4_CycleDetection ==
    (op = "bundles" /\ pc \in {"read", "next", "append"}) =>
      LET c == anchors[b].slides
          K == Len(c)
      IN  /\ Distinct(RecordNames(games))
          /\ seen = {games[i].name : i \in 1..Len(games)}
          /\ Distinct(c) =>
               /\ RecordNames(games) = SubSeq(c, 1, Len(games))
               /\ pc \in {"read", "next"} => reads <= K /\ ENABLED (BnRead \/ BnNext)
               /\ pc = "append" => reads = K + 1 /\ Len(games) = K /\ slide = 1

C4_Witness ==
    /\ op = "bundles" /\ pc = "append"
    /\ Len(anchors[b].slides) = 3 /\ Distinct(anchors[b].slides)
    /\ Len(games) = 3 /\ reads = 4

(***************************************************************************)
(* C5: every extracted page's array is flushed to the file before the run  *)
(* advances, so that when the run is on a later page, or has aborted on    *)
(* it, the arrays of the pages before it are on disk.                      *)
(***************************************************************************)
C5_FlushedPerPage ==
    (Listing /\ (pc \in {"sleep", "select"} \/ (pc = "error" /\ err = "item")))
      => buf = <<>>

(***************************************************************************)
(* C6: in the flat shape (Gamebillet.download) an item whose name is       *)
(* present never aborts the page, and a discount or price field that is    *)
(* absent, empty or non-numeric yields 0 in the emitted record.            *)
(***************************************************************************)
C6_FlatDefaults ==
    op = "gamebillet" =>
      /\ (pc = "error" /\ err = "item") => ~FailingItem.name.found
      /\ pc = "dump" =>
           /\ Len(output) = Len(site[cur].items)
           /\ \A i \in 1..Len(output) :
                LET it == site[cur].items[i] IN
                /\ NoNumber(it.discount) => output[i].percent_discount = 0
                /\ NoNumber(it.price) => output[i].price = Zero

(***************************************************************************)
(* C7: in the simple shape (Gamesplanet.steam) no item with a name aborts  *)
(* the run: an empty or malformed price, or a struck price with a missing  *)
(* or malformed savings field, is resolved by the zero default.            *)
(***************************************************************************)
C7_SimpleNeverRaises ==
    (op = "gamesplanet" /\ pc = "error" /\ err = "item") =>
      ~FailingItem.name.found

(***************************************************************************)
(* C8: once a page with an item lacking its name has been queried, the run *)
(* is aborted with a fatal error at an item no later than that one: no     *)
(* record was emitted for the nameless item, the records emitted are those *)
(* of the items before the failing one, the page's array was not written,  *)
(* no later page was queried, no click followed, and nothing more happens. *)
(***************************************************************************)
C8_StructuralFault ==
    Listing =>
      \A q \in 1..Len(queried) :
        LET items == site[queried[q]].items IN
        Nameless(items) # {} =>
          /\ q = Len(queried)
          /\ pc = "error" /\ err = "item"
          /\ Len(output) < Min(Nameless(items))
          /\ RecordNames(output) = SubSeq(ItemNames(items), 1, Len(output))
          /\ Len(disk) + Len(buf) = q - 1
          /\ clicks = q - 1
          /\ ~ENABLED Next

C8_Witness ==
    /\ Listing /\ pc = "error" /\ err = "item"
    /\ Len(queried) = 2 /\ cur = 2
    /\ Nameless(site[cur].items) = {2}
    /\ Len(output) = 1
    /\ Len(disk) + Len(buf) = 1

(***************************************************************************)
(* C9: in the simple shape (Gamesplanet.steam) every record of an          *)
(* extracted page has, when the item shows a struck price, original_price  *)
(* = the struck price, discount = the savings value and price = the        *)
(* current price, and otherwise original_price = price = the current price *)
(* and discount = 0.                                                       *)
(***************************************************************************)
C9_SimpleShape ==
    (op = "gamesplanet" /\ pc = "dump") =>
      /\ Len(output) = Len(site[cur].items)
      /\ \A i \in 1..Len(output) :
           LET it == site[cur].items[i]
               r == output[i]
           IN  /\ r.name = it.name.text
               /\ r.price = Shown(it.price.text)
               /\ IF it.base.found
                  THEN /\ r.original_price = Shown(it.base.text)
                       /\ r.discount = ShownPercent(it.saving.text)
                  ELSE /\ r.original_price = Shown(it.price.text)
                       /\ r.discount = 0

C9_Witness ==
    /\ op = "gamesplanet" /\ pc = "dump" /\ cur = 2
    /\ Len(output) = 2
    /\ output[1] = [name |-> <<"A">>, original_price |-> [n |-> 1999, d |-> 2],
                    discount |-> 50, price |-> [n |-> 999, d |-> 2]]
    /\ output[2].discount = 0 /\ output[2].original_price = output[2].price

(***************************************************************************)
(* C10: every record written by an extraction run has its discount in      *)
(* 0..100 and, when it has an original price and a discount above 0, a     *)
(* price not above the original price.                                     *)
(***************************************************************************)
C10_EntryInvariant ==
    Listing =>
      \A k \in 1..Len(disk \o buf) :
        \A i \in 1..Len((disk \o buf)[k]) :
          LET r == (disk \o buf)[k][i] IN
          IF op = "gamebillet"
          THEN r.percent_discount \in 0..100
          ELSE /\ r.discount \in 0..100
               /\ r.discount > 0 => DecLeq(r.price, r.original_price)

(***************************************************************************)
(* C11: the duplicate-name detector reports a name as reused exactly when  *)
(* more than one distinct reference item id produced its NameKey (the      *)
(* name with whitespace collapsed, trimmed and case-folded), by the item   *)
(* name or by any purchase-option name; ids whose names differ only in     *)
(* case or whitespace share a key and are flagged.                         *)
(***************************************************************************)
\* the names of the catalog, of items and of purchase options
CatalogTexts == SetOf(CatalogNames(appinfo)) \cup SetOf(OptionNames(appinfo))

\* the ids of the reference items that produce the NameKey key
NameKeyIds(key) ==
    {appinfo[i].appid : i \in
        {j \in DOMAIN appinfo :
            \/ normalize(appinfo[j].name) = key
            \/ \E o \in SetOf(appinfo[j].purchase_options) : normalize(o) = key}}

C11_ReusedByNameKey ==
    (op = "steam" /\ pc = "done") =>
        \A t \in CatalogTexts :
            (\E k \in reused : normalize(k) = normalize(t))
                <=> Cardinality(NameKeyIds(normalize(t))) > 1

(***************************************************************************)
(* C12: the diff of a retailer file is normalize of its names minus        *)
(* normalize of the reference names, so a retailer name is in the diff     *)
(* exactly when no reference name has its NameKey; reference {Foo, Bar}    *)
(* and retailer {foo, BAR, Baz} give {baz}.                                *)
(***************************************************************************)
\* the file the loop reported last: names_set and diff are its sets
LastReported == files[reported[Len(reported)].file]

C12_DiffIsSetDifference ==
    (op = "normalize" /\ reported # <<>>) =>
        LET retailer == SetOf(LastReported.names)
            reference == SetOf(steam_names)
        IN  /\ diff = {normalize(x) : x \in retailer}
                          \ {normalize(y) : y \in reference}
            /\ \A x \in retailer :
                   normalize(x) \in diff
                       <=> ~\E y \in reference : normalize(y) = normalize(x)
            /\ reported[Len(reported)].diff = Cardinality(diff)
            /\ (reference = {NameFoo, NameBar}
                    /\ retailer = {NameFooLower, NameBarUpper, NameBaz})
                   => diff = {<<"b", "a", "z">>}

C12_Witness ==
    /\ op = "normalize" /\ Len(reported) = 1
    /\ steam_names = <<NameFoo, NameBar>>
    /\ files[1].names = <<NameFooLower, NameBarUpper, NameBaz>>
    /\ diff = {<<"b", "a", "z">>}

(***************************************************************************)
(* C13: the reference key set of the diff holds normalize of the name of   *)
(* every purchase option of every reference item besides normalize of the  *)
(* item names, so a retailer title that equals a purchase-option name      *)
(* after canonicalization is never reported as absent from the reference.  *)
(***************************************************************************)
C13_OptionsInReference ==
    (op = "normalize" /\ pc # "start") =>
        /\ \A n \in CatalogTexts : normalize(n) \in steam_set
        /\ \A o \in SetOf(OptionNames(appinfo)) : normalize(o) \notin diff

(***************************************************************************)
(* C14: normalize is idempotent, normalize(normalize(x)) = normalize(x),   *)
(* and its result has no leading or trailing whitespace, no run of two or  *)
(* more whitespace characters and no upper-case letter; so                 *)
(* normalize("  Foo   Bar  ") = normalize("Foo Bar").                      *)
(***************************************************************************)
Canonical(k) ==
    /\ k # <<>> => Head(k) \notin Whitespace /\ k[Len(k)] \notin Whitespace
    /\ \A i \in 1..(Len(k) - 1) : ~(k[i] \in Whitespace /\ k[i + 1] \in Whitespace)
    /\ \A i \in 1..Len(k) : ~IsUpper(k[i])

\* the names the run has read so far, as the files have them
NamesRead ==
    SetOf(steam_names) \cup UNION {SetOf(files[reported[i].file].names) : i \in DOMAIN reported}

C14_NormalizeIdempotent ==
    (op = "normalize" /\ pc # "start") =>
        /\ \A x \in NamesRead :
               /\ normalize(normalize(x)) = normalize(x)
               /\ Canonical(normalize(x))
               /\ normalize(x) \in steam_set \cup UNION {SetOf(loader(files[reported[i].file])) : i \in DOMAIN reported}
        /\ \A k \in steam_set \cup names_set : normalize(k) = k /\ Canonical(k)
        /\ normalize(NameFooBarSpaced) = normalize(NameFooBar)

C14_Witness ==
    /\ op = "normalize" /\ pc # "start"
    /\ NameFooBarSpaced \in NamesRead
    /\ <<"f", "o", "o", " ", "b", "a", "r">> \in steam_set \cup names_set

(***************************************************************************)
(* C15: in every pagination cycle of a retailer run a settle delay occurs  *)
(* after the most recent navigation (open or next-click) and before the    *)
(* item nodes are queried; the nodes are never queried right after a       *)
(* navigation.                                                             *)
(***************************************************************************)
C15_SettleBeforeQuery == [][queried' # queried => settled]_vars

C15_Witness ==
    /\ Listing /\ clicks = 1 /\ cur = 2
    /\ queried = <<1, 2>>
    /\ settled

(***************************************************************************)
(* C16: if any snapshot file of the reconciliation run is missing or       *)
(* malformed, the run is fatal and no diff is reported for any retailer:   *)
(* no results are emitted for the files that were readable.                *)
(***************************************************************************)
Unreadable == {i \in DOMAIN files : files[i].status # "ok"}

C16_NoPartialReport ==
    (op = "normalize" /\ Unreadable # {}) =>
        /\ pc # "done"
        /\ reported = <<>>

(***************************************************************************)
(* C17: Gamesplanet.steam extracts at most total_pages pages, total_pages  *)
(* being the number read from the pager once, on the first page: the run   *)
(* stops when that count is exhausted even if the lookup of the next       *)
(* control still succeeds, so a failed lookup is not its only way to end.  *)
(***************************************************************************)
C17_AtMostTotalPages ==
    (op = "gamesplanet" /\ pc # "start" /\ err # "pager") =>
        /\ total_pages = IntVal(pager.text)
        /\ Len(queried) <= total_pages
        /\ (pc \in {"close", "done"} /\ lookup = "present") =>
               /\ Len(queried) = total_pages
               /\ count = total_pages

C17_Witness ==
    /\ op = "gamesplanet" /\ pc = "done"
    /\ lookup = "present" /\ total_pages = 1
    /\ Len(site) = 2 /\ queried = <<1>>

(***************************************************************************)
(* C18: Gamebillet.download on a page from which the next control is       *)
(* entirely absent (the lookup raises instead of returning a control with  *)
(* the sentinel href) ends in an error, not in a normal termination, and   *)
(* the item array of that page has been appended to the output before the  *)
(* error.                                                                  *)
(***************************************************************************)
C18_AbsentControlRaises ==
    (op = "gamebillet" /\ lookup = "absent") =>
        /\ pc = "error" /\ err = "find"
        /\ site[cur].next = "absent"
        /\ Len(disk \o buf) = Len(queried)
        /\ (disk \o buf)[Len(queried)] = GamebilletExtract(site[cur].items).out
        /\ queried[Len(queried)] = cur

C18_Witness ==
    /\ op = "gamebillet" /\ lookup = "absent"
    /\ cur = 2 /\ clicks = 1
    /\ output # <<>>
    /\ Len(disk \o buf) = 2

(***************************************************************************)
(* C19: Indiegala.bundles carousel loop: at the start of every iteration   *)
(* the seen set is the set of the names in the collected games list and    *)
(* the list has exactly |seen| entries; so if two distinct carousel items  *)
(* share a name, the loop stops at the second one and collects fewer than  *)
(* K items.                                                                *)
(***************************************************************************)
GameNames == {games[i].name : i \in DOMAIN games}

\* the position of the first slide whose title an earlier slide has
FirstShared(c) ==
    Min({j \in DOMAIN c : \E i \in 1..(j - 1) : c[i] = c[j]})

C19_SeenMatchesGames ==
    (op = "bundles" /\ pc \in {"read", "next", "append"}) =>
        LET c == anchors[b].slides IN
        /\ seen = GameNames
        /\ Len(games) = Cardinality(seen)
        /\ (pc = "append" /\ ~Distinct(c)) =>
               /\ reads = FirstShared(c)
               /\ slide = FirstShared(c)
               /\ Len(games) = FirstShared(c) - 1
               /\ Len(games) < Len(c)

C19_Witness ==
    /\ op = "bundles" /\ pc = "append"
    /\ anchors[b].slides = <<TitleOf(1), TitleOf(2), TitleOf(1)>>
    /\ Len(games) = 2

(***************************************************************************)
(* C20: Indiegala.fetch writes exactly one file per iteration, named by a  *)
(* local counter that runs 1, 2, 3, ... without a gap, and stops exactly   *)
(* at the first iteration in which the currentPage the feed reports equals *)
(* the totalPages it reports; if the feed never reports them equal (say    *)
(* totalPages = 0, or currentPage already past totalPages) the loop does   *)
(* not terminate.                                                          *)
(***************************************************************************)
\* the feed reports its last page on page j
ReportsLast(j) == feed[j].currentPage = feed[j].totalPages

C20_FetchLoop ==
    (op = "fetch" /\ pc # "start") =>
        /\ written = UpTo(IF pc \in {"test", "done"} THEN page ELSE page - 1)
        /\ \A j \in 1..(page - 1) : feed[j].ok /\ ~ReportsLast(j)
        /\ pc \in {"test", "done"} =>
               /\ feed[page].ok
               /\ current_page = feed[page].currentPage
               /\ feed_pages = feed[page].totalPages
        /\ pc = "done" => ReportsLast(page)
        /\ pc = "error" => ~feed[page].ok
        /\ (pc = "test" /\ page < MaxFetch) => ENABLED FtTest
        /\ (pc = "test" /\ ~ReportsLast(page)) => ~ENABLED (FtTest /\ pc' = "done")

C20_Witness ==
    /\ op = "fetch" /\ pc = "done"
    /\ page = 2 /\ written = <<1, 2>>
    /\ feed[1].totalPages = 0

=============================================================================
